---- MODULE Spec2Model ----
(***************************************************************************)
(* Model of pipeline_service/modules/image_enhancement.py (ImageEnhancer). *)
(*                                                                         *)
(* Images are records [mode, width, height, px]; px is the row-major       *)
(* sequence of pixels, a pixel being the tuple of its 8-bit channels.      *)
(* Python objects live in `heap`; a reference is an index into it and 0    *)
(* is an unbound name.  Float factors are carried as integer percents      *)
(* (1.0 = 100), so every blend is exact integer arithmetic.                *)
(* The Pillow / numpy calls the module makes are modelled by what those    *)
(* library routines compute on 8-bit data.                                 *)
(***************************************************************************)
EXTENDS Integers, Sequences, FiniteSets, TLC

\* ------------------------------------------------------------------ bounds

\* how many times the caller feeds a returned image back into the same call
MaxChain == 1

\* ------------------------------------------------------- program constants

Neutral == 100           \* the factor 1.0 the three gates compare with
TrellisSharpen == 120    \* sharpen_factor=1.2
TrellisColor == 110      \* color_factor=1.1
TrellisContrast == 105   \* contrast_factor=1.05
UnsharpPercent == 150    \* UnsharpMask(percent=150)
UnsharpThreshold == 3    \* UnsharpMask(threshold=3)
SatBoost == 125          \* s_array * 1.25
ValBoost == 105          \* v_array * 1.05
image == 1               \* the argument `image`: the caller's object

\* ----------------------------------------------------- arithmetic helpers

Min(a, b) == IF a < b THEN a ELSE b
Max(a, b) == IF a > b THEN a ELSE b
Abs(a) == IF a < 0 THEN 0 - a ELSE a

\* C integer division, truncating toward zero
TruncDiv(a, b) == IF a >= 0 THEN a \div b ELSE 0 - ((0 - a) \div b)

\* round(num/den) for num >= 0, den > 0 (half away from zero)
RoundDiv(num, den) == (2 * num + den) \div (2 * den)

\* f itself, built element by element: TLC would otherwise keep a function
\* passed as an argument unevaluated and recompute it at every application
Eager(f) == f @@ <<>>

RECURSIVE SumSeq(_)
SumSeq(q) == IF q = <<>> THEN 0 ELSE Head(q) + SumSeq(Tail(q))

\* Pillow's saturating store of a computed channel (CLIP8 / the clip in blend)
Clip8(x) == IF x <= 0 THEN 0 ELSE IF x >= 255 THEN 255 ELSE x

\* ------------------------------------------------------------ conversions

\* Pillow's RGB -> L: ITU-R 601-2 luma in 16.16 fixed point
Luma(p) == (p[1] * 19595 + p[2] * 38470 + p[3] * 7471 + 32768) \div 65536

\* Pillow's rgb2hsv on one pixel (hue and saturation scaled to 0..255)
Rgb2Hsv(p) ==
    LET r == p[1]
        g == p[2]
        b == p[3]
        maxc == Max(r, Max(g, b))
        minc == Min(r, Min(g, b))
        cr == maxc - minc
        n == IF r = maxc THEN g - b
             ELSE IF g = maxc THEN 2 * cr + (b - r)
             ELSE 4 * cr + (r - g)
        nn == IF n < 0 THEN n + 6 * cr ELSE n
    IN  IF minc = maxc THEN <<0, 0, maxc>>
        ELSE <<Clip8((255 * nn) \div (6 * cr)), Clip8((255 * cr) \div maxc), maxc>>

\* Pillow's hsv2rgb on one pixel
Hsv2Rgb(p) ==
    LET hh == p[1]
        ss == p[2]
        vv == p[3]
        i == (6 * hh) \div 255
        fn == 6 * hh - 255 * i
        pp == Clip8(RoundDiv(vv * (255 - ss), 255))
        qq == Clip8(RoundDiv(vv * (65025 - ss * fn), 65025))
        tt == Clip8(RoundDiv(vv * (65025 - ss * (255 - fn)), 65025))
        k == i % 6
    IN  IF ss = 0 THEN <<vv, vv, vv>>
        ELSE IF k = 0 THEN <<vv, tt, pp>>
        ELSE IF k = 1 THEN <<qq, vv, pp>>
        ELSE IF k = 2 THEN <<pp, vv, tt>>
        ELSE IF k = 3 THEN <<pp, qq, vv>>
        ELSE IF k = 4 THEN <<tt, pp, vv>>
        ELSE <<vv, pp, qq>>

\* image.convert(mode): always a new image of the same size
Convert(img, mode) ==
    LET F(p) == IF img.mode = mode THEN p
                ELSE IF mode = "RGB" /\ img.mode = "L" THEN <<p[1], p[1], p[1]>>
                ELSE IF mode = "RGB" /\ img.mode = "RGBA" THEN <<p[1], p[2], p[3]>>
                ELSE IF mode = "RGB" /\ img.mode = "HSV" THEN Hsv2Rgb(p)
                ELSE IF mode = "L" /\ img.mode = "RGB" THEN <<Luma(p)>>
                ELSE IF mode = "HSV" /\ img.mode = "RGB" THEN Rgb2Hsv(p)
                ELSE p
    IN  [mode |-> mode, width |-> img.width, height |-> img.height,
         px |-> Eager([i \in 1..Len(img.px) |-> F(img.px[i])])]

\* img.split()[k]: band k as an L image
Band(img, k) ==
    [mode |-> "L", width |-> img.width, height |-> img.height,
     px |-> Eager([i \in 1..Len(img.px) |-> <<img.px[i][k]>>])]

\* Image.merge(mode, (a, b, c))
Merge(mode, a, b, c) ==
    [mode |-> mode, width |-> a.width, height |-> a.height,
     px |-> Eager([i \in 1..Len(a.px) |-> <<a.px[i][1], b.px[i][1], c.px[i][1]>>])]

\* np.array(band, dtype=np.float32): the flat array of an L image
ToArray(img) == Eager([i \in 1..Len(img.px) |-> img.px[i][1]])

\* Image.fromarray(arr, mode='L') with the shape of `like`
FromArrayTransposed(arr, like) ==
    [mode |-> "L", width |-> like.height, height |-> like.width,
     px |-> Eager([i \in 1..Len(arr) |-> <<arr[i]>>])]
FromArray(arr, like) ==
    [mode |-> "L", width |-> like.width, height |-> like.height,
     px |-> Eager([i \in 1..Len(arr) |-> <<arr[i]>>])]

\* ---------------------------------------------------------------- filters

\* Image.blend(im1, im2, alpha): im1 + alpha * (im2 - im1) per channel, stored
\* saturated and truncated to an integer (alpha = f / 100)
BlendChannel(a, b, f) ==
    LET n == 100 * a + f * (b - a)
    IN  IF n <= 0 THEN 0 ELSE Clip8(n \div 100)

Blend(im1, im2, f) ==
    [im2 EXCEPT !.px = Eager([i \in 1..Len(im2.px) |->
        Eager([c \in 1..Len(im2.px[i]) |->
            BlendChannel(im1.px[i][c], im2.px[i][c], f)])])]

\* pixel (x, y), 1-based, with the coordinates clamped to the image (edge
\* replication)
At(img, x, y) ==
    img.px[(Min(Max(y, 1), img.height) - 1) * img.width + Min(Max(x, 1), img.width)]

\* column and row of the i-th pixel of a row-major image of width w
Col(i, w) == ((i - 1) % w) + 1
Row(i, w) == ((i - 1) \div w) + 1

\* image.filter(ImageFilter.SMOOTH): the 3x3 kernel (1 1 1 / 1 5 1 / 1 1 1) / 13;
\* border pixels are copied, and so is an image smaller than the kernel
SmoothChannel(img, x, y, c) ==
    Clip8(RoundDiv(At(img, x - 1, y - 1)[c] + At(img, x, y - 1)[c] + At(img, x + 1, y - 1)[c]
                   + At(img, x - 1, y)[c] + 5 * At(img, x, y)[c] + At(img, x + 1, y)[c]
                   + At(img, x - 1, y + 1)[c] + At(img, x, y + 1)[c] + At(img, x + 1, y + 1)[c],
                   13))

Smooth(img) ==
    IF img.width < 3 \/ img.height < 3 THEN img
    ELSE [img EXCEPT !.px = Eager([i \in 1..Len(img.px) |->
            IF Col(i, img.width) \in {1, img.width} \/ Row(i, img.width) \in {1, img.height}
            THEN img.px[i]
            ELSE Eager([c \in 1..Len(img.px[i]) |->
                    SmoothChannel(img, Col(i, img.width), Row(i, img.width), c)])])]

\* ImageEnhance.Sharpness(img).enhance(f)
Sharpness(img, f) == Blend(Smooth(img), img, f)

\* ImageEnhance.Color(img).enhance(f): blend with the greyscale image
Color(img, f) == Blend(Convert(Convert(img, "L"), "RGB"), img, f)

\* the rounded mean of an L image
Mean(grey) == RoundDiv(SumSeq(ToArray(grey)), Len(grey.px))

\* Image.new("L", size, level).convert("RGB")
Flat(img, level) ==
    [img EXCEPT !.px = Eager([i \in 1..Len(img.px) |-> <<level, level, level>>])]

\* ImageEnhance.Contrast(img).enhance(f): blend with the flat image of the
\* rounded mean luminance
Contrast(img, f) == Blend(Flat(img, Mean(Convert(img, "L"))), img, f)

\* one pass of Pillow's extended box blur along x for the box radius 1.375
\* that GaussianBlur(radius=2) uses: weights ww on x-1..x+1 and fw on x-2, x+2
\* in 2^-24 units (ww = 4473924, fw = 1677722), halved here to stay in 32 bits
BoxBlurChannel(img, x, y, c) ==
    (2236962 * (At(img, x - 1, y)[c] + At(img, x, y)[c] + At(img, x + 1, y)[c])
     + 838861 * (At(img, x - 2, y)[c] + At(img, x + 2, y)[c])
     + 4194304) \div 8388608

BoxBlurX(img) ==
    [img EXCEPT !.px = Eager([i \in 1..Len(img.px) |->
        Eager([c \in 1..Len(img.px[i]) |->
            BoxBlurChannel(img, Col(i, img.width), Row(i, img.width), c)])])]

Transpose(img) ==
    [mode |-> img.mode, width |-> img.height, height |-> img.width,
     px |-> Eager([i \in 1..Len(img.px) |->
                At(img, Row(i, img.height), Col(i, img.height))])]

\* ImagingGaussianBlur: three box-blur passes along x, then three along y
GaussianBlur(img) ==
    Transpose(BoxBlurX(BoxBlurX(BoxBlurX(Transpose(BoxBlurX(BoxBlurX(BoxBlurX(img))))))))

\* the unsharp step on one channel: the difference to the blurred channel is
\* added back at percent/100 unless it is below the threshold
UnsharpChannel(a, blurred) ==
    IF Abs(a - blurred) >= UnsharpThreshold
    THEN Clip8(a + TruncDiv((a - blurred) * UnsharpPercent, 100))
    ELSE a

Sharpen(img, blur) ==
    [img EXCEPT !.px = Eager([i \in 1..Len(img.px) |->
        Eager([c \in 1..Len(img.px[i]) |->
            UnsharpChannel(img.px[i][c], blur.px[i][c])])])]

\* image.filter(ImageFilter.UnsharpMask(radius=2, percent=150, threshold=3))
UnsharpMask(img) == Sharpen(img, GaussianBlur(img))

\* ------------------------------------------------------------------ numpy
\* A float32 array element is carried in units of 2^-16, which decides both
\* the clip at 255.0 and the truncation of astype(np.uint8).

RECURSIVE Log2(_)
Log2(n) == IF n < 2 THEN 0 ELSE 1 + Log2(n \div 2)

RECURSIVE Pow2(_)
Pow2(k) == IF k = 0 THEN 1 ELSE 2 * Pow2(k - 1)

\* the float32 nearest to pct / 100, as a 24-bit significand (1 <= pct/100 < 2)
F32Significand(pct) == RoundDiv(pct * 8388608, 100)

\* float32 product of the integer-valued element x (0..255) and pct / 100,
\* rounded to nearest, ties to even
F32Mul(x, pct) ==
    LET d == F32Significand(pct) - 8388608
        n == x + (x * d) \div 8388608
        rem == (x * d) % 8388608
        ulp == Pow2(Log2(n))
        q == rem \div ulp
        r == rem % ulp
        up == 2 * r > ulp \/ (2 * r = ulp /\ q % 2 = 1)
        rr == (IF up THEN q + 1 ELSE q) * ulp
    IN  IF x = 0 THEN 0 ELSE n * 65536 + rr \div 128

\* arr * k on a float32 array of channel values
Scale(arr, pct) == Eager([i \in 1..Len(arr) |-> F32Mul(arr[i], pct)])

\* np.clip(arr, lo, hi)
NpClipNone(arr, lo, hi) == arr
NpClip(arr, lo, hi) ==
    Eager([i \in 1..Len(arr) |-> Min(Max(arr[i], lo * 65536), hi * 65536)])

\* arr.astype(np.uint8): truncate, keep the low 8 bits
AsUint8(arr) == Eager([i \in 1..Len(arr) |-> (arr[i] \div 65536) % 256])

\* ------------------------------------------------------------------ state

VARIABLES
    pc,               \* the statement about to run ("idle", "done", or a line label)
    op,               \* the public operation the caller invoked
    sharpen_factor, color_factor, contrast_factor, apply_unsharp,
    heap,             \* the image objects; heap[image] is the caller's buffer
    enhanced, img_array, img_hsv, h, s, v, s_array, v_array,   \* locals
    e,                \* the statement whose exception the handler caught ("" = none)
    log,              \* the calls made on the log sink during this call
    outcome, ret,     \* "returned" with the returned reference, or "raised"
    trace,            \* the library calls completed: [step, src, dst]
    given,            \* the caller's image as it was when the call began
    chain, fed        \* resubmissions so far; how the current input was obtained

params == <<sharpen_factor, color_factor, contrast_factor, apply_unsharp>>
locals == <<enhanced, img_array, img_hsv, h, s, v, s_array, v_array>>
vars == <<pc, op, params, heap, locals, e, log, outcome, ret, trace, given, chain, fed>>

\* ----------------------------------------------------------------- inputs

ImgA ==
    [mode |-> "RGB", width |-> 3, height |-> 3,
     px |-> << <<255, 0, 0>>, <<220, 40, 20>>, <<200, 30, 30>>,
               <<40, 180, 60>>, <<120, 200, 90>>, <<30, 60, 200>>,
               <<10, 10, 10>>, <<128, 128, 128>>, <<250, 250, 240>> >>]

ImgB ==
    [mode |-> "RGBA", width |-> 2, height |-> 1,
     px |-> << <<255, 0, 0, 128>>, <<10, 200, 30, 255>> >>]

ImgC ==
    [mode |-> "L", width |-> 3, height |-> 2,
     px |-> << <<0>>, <<60>>, <<120>>, <<180>>, <<240>>, <<255>> >>]

Inputs == {ImgA, ImgB, ImgC}

\* the factors the caller passes, as percents: the neutral 1.0, the values of
\* prepare_for_trellis, the defaults 1.3 and 1.1, a factor below 1.0 and one
\* large enough to drive channels out of range
SharpenFactors == {50, Neutral, TrellisSharpen, 130}
ColorFactors == {Neutral, TrellisColor, 400}
ContrastFactors == {Neutral, TrellisContrast, 110}

\* ---------------------------------------------------------------- helpers

\* the reference of the object a library call returns: always a new object
AllocInPlace(hp, src) == src
Alloc(hp, src) == Len(hp) + 1

Store(hp, ref, img) ==
    IF ref = Len(hp) + 1 THEN Append(hp, img) ELSE [hp EXCEPT ![ref] = img]

\* `if factor != 1.0`
GateAbove(f) == f > Neutral
Gate(f) == f # Neutral

\* `if apply_unsharp`
UnsharpAlways(flag) == TRUE
UnsharpGate(flag) == flag

NoLocals ==
    /\ enhanced' = 0
    /\ img_array' = <<>>
    /\ img_hsv' = 0
    /\ h' = 0
    /\ s' = 0
    /\ v' = 0
    /\ s_array' = <<>>
    /\ v_array' = <<>>

\* a call begins: the arguments are bound, nothing else exists yet
Enter(o, first, img, sf, cf, ctf, un, ch, how) ==
    /\ pc' = first
    /\ op' = o
    /\ sharpen_factor' = sf
    /\ color_factor' = cf
    /\ contrast_factor' = ctf
    /\ apply_unsharp' = un
    /\ heap' = <<img>>
    /\ given' = img
    /\ NoLocals
    /\ e' = ""
    /\ log' = <<>>
    /\ outcome' = "none"
    /\ ret' = 0
    /\ trace' = <<>>
    /\ chain' = ch
    /\ fed' = how

\* a library call `enhanced = F(src)` completes and control moves to `next`
Apply(step, src, img, next) ==
    LET dst == Alloc(heap, src)
    IN  /\ heap' = Store(heap, dst, img)
        /\ enhanced' = dst
        /\ trace' = Append(trace, [step |-> step, src |-> src, dst |-> dst])
        /\ pc' = next
        /\ UNCHANGED <<op, params, img_array, img_hsv, h, s, v, s_array, v_array,
                       e, log, outcome, ret, given, chain, fed>>

Skip(next) ==
    /\ pc' = next
    /\ UNCHANGED <<op, params, heap, locals, e, log, outcome, ret, trace, given, chain, fed>>

Idle == pc \in {"idle", "done"}

Init ==
    /\ pc = "idle"
    /\ op = ""
    /\ sharpen_factor = Neutral
    /\ color_factor = Neutral
    /\ contrast_factor = Neutral
    /\ apply_unsharp = FALSE
    /\ heap = <<>>
    /\ given = ImgA
    /\ enhanced = 0
    /\ img_array = <<>>
    /\ img_hsv = 0
    /\ h = 0
    /\ s = 0
    /\ v = 0
    /\ s_array = <<>>
    /\ v_array = <<>>
    /\ e = ""
    /\ log = <<>>
    /\ outcome = "none"
    /\ ret = 0
    /\ trace = <<>>
    /\ chain = 0
    /\ fed = "fresh"

\* --------------------------------------------------------- enhance_for_3d

CallEnhanceFor3d ==
    /\ Idle
    /\ \E img \in Inputs, sf \in SharpenFactors, cf \in ColorFactors,
          ctf \in ContrastFactors, un \in BOOLEAN :
          Enter("enhance_for_3d", "e3_convert", img, sf, cf, ctf, un, 0, "fresh")

\* line 40
E3Convert ==
    /\ pc = "e3_convert"
    /\ Apply("convert", image, Convert(heap[image], "RGB"), "e3_sharpen")

\* lines 43-45
E3Sharpen ==
    /\ pc = "e3_sharpen"
    /\ IF Gate(sharpen_factor)
       THEN Apply("sharpen", enhanced, Sharpness(heap[enhanced], sharpen_factor), "e3_color")
       ELSE Skip("e3_color")

\* lines 48-50
E3Color ==
    /\ pc = "e3_color"
    /\ IF Gate(color_factor)
       THEN Apply("color", enhanced, Color(heap[enhanced], color_factor), "e3_contrast")
       ELSE Skip("e3_contrast")

\* lines 53-55
E3Contrast ==
    /\ pc = "e3_contrast"
    /\ IF Gate(contrast_factor)
       THEN Apply("contrast", enhanced, Contrast(heap[enhanced], contrast_factor), "e3_unsharp")
       ELSE Skip("e3_unsharp")

\* lines 58-59
E3Unsharp ==
    /\ pc = "e3_unsharp"
    /\ IF UnsharpGate(apply_unsharp)
       THEN Apply("unsharp", enhanced, UnsharpMask(heap[enhanced]), "e3_info")
       ELSE Skip("e3_info")

\* the statement at pc makes a library call (a skipped step calls nothing)
E3Calls ==
    \/ pc = "e3_convert"
    \/ pc = "e3_sharpen" /\ Gate(sharpen_factor)
    \/ pc = "e3_color" /\ Gate(color_factor)
    \/ pc = "e3_contrast" /\ Gate(contrast_factor)
    \/ pc = "e3_unsharp" /\ UnsharpGate(apply_unsharp)

\* a raise leaves the try body for the handler at `handler`
Raise(handler) ==
    /\ e' = pc
    /\ pc' = handler
    /\ UNCHANGED <<op, params, heap, locals, log, outcome, ret, trace, given, chain, fed>>

\* lines 39, 64: the library call at pc raises inside the try
E3Raise ==
    /\ E3Calls
    /\ Raise("e3_except")

\* logger.info at `at`: the sink accepts the entry and the call returns
\* `enhanced`, or the sink raises inside the try
Info(at, handler) ==
    /\ pc = at
    /\ \E ok \in BOOLEAN :
          /\ log' = Append(log, [level |-> "info", ok |-> ok])
          /\ IF ok
             THEN /\ pc' = "done"
                  /\ outcome' = "returned"
                  /\ ret' = enhanced
                  /\ e' = e
             ELSE /\ pc' = handler
                  /\ e' = at
                  /\ UNCHANGED <<outcome, ret>>
    /\ UNCHANGED <<op, params, heap, locals, trace, given, chain, fed>>

\* logger.warning in the handler at `at`: the sink accepts the entry and the
\* call returns `image`, or the sink raises and nothing catches it
Warning(at) ==
    /\ pc = at
    /\ \E ok \in BOOLEAN :
          /\ log' = Append(log, [level |-> "warning", ok |-> ok])
          /\ pc' = "done"
          /\ outcome' = IF ok THEN "returned" ELSE "raised"
          /\ ret' = IF ok THEN image ELSE 0
    /\ UNCHANGED <<op, params, heap, locals, e, trace, given, chain, fed>>

\* lines 61-62
E3Info == Info("e3_info", "e3_except")

\* lines 64-66
E3Except == Warning("e3_except")

\* ------------------------------------------------------ prepare_for_trellis

\* lines 123-126: the arguments prepare_for_trellis passes on
TrellisDefaults == <<130, 115, 110, TRUE>>
TrellisArgs == <<TrellisSharpen, TrellisColor, TrellisContrast, TRUE>>

\* lines 121-127
CallPrepareForTrellis ==
    /\ Idle
    /\ \E img \in Inputs :
          Enter("prepare_for_trellis", "e3_convert", img,
                TrellisArgs[1], TrellisArgs[2], TrellisArgs[3], TrellisArgs[4], 0, "fresh")

\* --------------------------------------------- enhance_colors_for_matching

CallEnhanceColorsForMatching ==
    /\ Idle
    /\ \E img \in Inputs :
          Enter("enhance_colors_for_matching", "cm_convert", img,
                Neutral, Neutral, Neutral, FALSE, 0, "fresh")

\* a statement that binds locals other than `enhanced` completes
CMFrame == UNCHANGED <<op, params, e, log, outcome, ret, given, chain, fed>>

\* line 80
CMConvert ==
    /\ pc = "cm_convert"
    /\ Apply("convert", image, Convert(heap[image], "RGB"), "cm_array")

\* line 83: img_array = np.array(enhanced) / 255.0, kept as the numerators
CMArray ==
    /\ pc = "cm_array"
    /\ img_array' = [i \in 1..Len(heap[enhanced].px) |-> heap[enhanced].px[i]]
    /\ pc' = "cm_hsv"
    /\ UNCHANGED <<heap, enhanced, img_hsv, h, s, v, s_array, v_array, trace>>
    /\ CMFrame

\* line 87 (line 86 imports a name the body never uses)
CMHsv ==
    /\ pc = "cm_hsv"
    /\ LET dst == Alloc(heap, enhanced)
       IN  /\ heap' = Store(heap, dst, Convert(heap[enhanced], "HSV"))
           /\ img_hsv' = dst
           /\ trace' = Append(trace, [step |-> "hsv", src |-> enhanced, dst |-> dst])
    /\ pc' = "cm_split"
    /\ UNCHANGED <<enhanced, img_array, h, s, v, s_array, v_array>>
    /\ CMFrame

\* line 88
CMSplit ==
    /\ pc = "cm_split"
    /\ heap' = heap \o <<Band(heap[img_hsv], 1), Band(heap[img_hsv], 2), Band(heap[img_hsv], 3)>>
    /\ h' = Len(heap) + 1
    /\ s' = Len(heap) + 2
    /\ v' = Len(heap) + 3
    /\ pc' = "cm_s_array"
    /\ UNCHANGED <<enhanced, img_array, img_hsv, s_array, v_array, trace>>
    /\ CMFrame

\* line 91
CMSArray ==
    /\ pc = "cm_s_array"
    /\ s_array' = ToArray(heap[s])
    /\ pc' = "cm_s_clip"
    /\ UNCHANGED <<heap, enhanced, img_array, img_hsv, h, s, v, v_array, trace>>
    /\ CMFrame

\* line 92
CMSClip ==
    /\ pc = "cm_s_clip"
    /\ s_array' = AsUint8(NpClip(Scale(s_array, SatBoost), 0, 255))
    /\ pc' = "cm_s_image"
    /\ UNCHANGED <<heap, enhanced, img_array, img_hsv, h, s, v, v_array, trace>>
    /\ CMFrame

\* line 93
CMSImage ==
    /\ pc = "cm_s_image"
    /\ heap' = Append(heap, FromArray(s_array, heap[s]))
    /\ s' = Len(heap) + 1
    /\ pc' = "cm_v_array"
    /\ UNCHANGED <<enhanced, img_array, img_hsv, h, v, s_array, v_array, trace>>
    /\ CMFrame

\* line 96
CMVArray ==
    /\ pc = "cm_v_array"
    /\ v_array' = ToArray(heap[v])
    /\ pc' = "cm_v_clip"
    /\ UNCHANGED <<heap, enhanced, img_array, img_hsv, h, s, v, s_array, trace>>
    /\ CMFrame

\* line 97
CMVClip ==
    /\ pc = "cm_v_clip"
    /\ v_array' = AsUint8(NpClip(Scale(v_array, ValBoost), 0, 255))
    /\ pc' = "cm_v_image"
    /\ UNCHANGED <<heap, enhanced, img_array, img_hsv, h, s, v, s_array, trace>>
    /\ CMFrame

\* line 98
CMVImage ==
    /\ pc = "cm_v_image"
    /\ heap' = Append(heap, FromArray(v_array, heap[v]))
    /\ v' = Len(heap) + 1
    /\ pc' = "cm_merge"
    /\ UNCHANGED <<enhanced, img_array, img_hsv, h, s, s_array, v_array, trace>>
    /\ CMFrame

\* the bands Image.merge('HSV', (h, s, v)) is given
MergeBandsSwapped(hp, hr, sr, vr) == Merge("HSV", hp[sr], hp[hr], hp[vr])
MergeBands(hp, hr, sr, vr) == Merge("HSV", hp[hr], hp[sr], hp[vr])

\* line 100: the merged HSV image is a temporary, converted back at once
CMMerge ==
    /\ pc = "cm_merge"
    /\ LET merged == MergeBands(heap, h, s, v)
           tmp == Len(heap) + 1
           dst == Len(heap) + 2
       IN  /\ heap' = heap \o <<merged, Convert(merged, "RGB")>>
           /\ enhanced' = dst
           /\ trace' = trace \o << [step |-> "merge", src |-> h, dst |-> tmp],
                                   [step |-> "rgb", src |-> tmp, dst |-> dst] >>
    /\ pc' = "cm_info"
    /\ UNCHANGED <<img_array, img_hsv, h, s, v, s_array, v_array>>
    /\ CMFrame

\* lines 79, 105: the library call at pc raises inside the try
CMRaise ==
    /\ pc \in {"cm_convert", "cm_array", "cm_hsv", "cm_split", "cm_s_array", "cm_s_clip",
               "cm_s_image", "cm_v_array", "cm_v_clip", "cm_v_image", "cm_merge"}
    /\ Raise("cm_except")

\* lines 102-103
CMInfo == Info("cm_info", "cm_except")

\* lines 105-107
CMExcept == Warning("cm_except")

\* ----------------------------------------------------------------- caller

\* the caller applies the same operation, with the same arguments, to the
\* image the last call returned
Resubmit ==
    /\ pc = "done"
    /\ outcome = "returned"
    /\ chain < MaxChain
    /\ Enter(op, IF op = "enhance_colors_for_matching" THEN "cm_convert" ELSE "e3_convert",
             heap[ret], sharpen_factor, color_factor, contrast_factor, apply_unsharp,
             chain + 1, IF ret = image THEN "original" ELSE "enhanced")

Next ==
    \/ CallEnhanceFor3d
    \/ E3Convert
    \/ E3Sharpen
    \/ E3Color
    \/ E3Contrast
    \/ E3Unsharp
    \/ E3Raise
    \/ E3Info
    \/ E3Except
    \/ CallPrepareForTrellis
    \/ CallEnhanceColorsForMatching
    \/ CMConvert
    \/ CMArray
    \/ CMHsv
    \/ CMSplit
    \/ CMSArray
    \/ CMSClip
    \/ CMSImage
    \/ CMVArray
    \/ CMVClip
    \/ CMVImage
    \/ CMMerge
    \/ CMRaise
    \/ CMInfo
    \/ CMExcept
    \/ Resubmit

Spec == Init /\ [][Next]_vars

\* ------------------------------------------------------------------ types

Refs == 0..Len(heap)

TypeOK ==
    /\ enhanced \in Refs /\ img_hsv \in Refs /\ h \in Refs /\ s \in Refs /\ v \in Refs
    /\ ret \in Refs
    /\ outcome \in {"none", "returned", "raised"}
    /\ chain \in 0..MaxChain
    /\ \A i \in 1..Len(heap) : Len(heap[i].px) = heap[i].width * heap[i].height

\* ----------------------------------------------------------------- claims

Done == pc = "done"
Returned == Done /\ outcome = "returned"
In3d == op \in {"enhance_for_3d", "prepare_for_trellis"}
InCM == op = "enhance_colors_for_matching"

\* the exception the handler caught came from an enhancement step (a library
\* call of the body), not from the log sink
StepFailed == e \notin {"", "e3_info", "cm_info"}

\* the call returned the image its body built
Succeeded == Returned /\ e = ""

Count(level) == Cardinality({i \in 1..Len(log) : log[i].level = level})

StepNames == [i \in 1..Len(trace) |-> trace[i].step]

\* each traced library call reads the object the one before it produced, the
\* first one reads the caller's image
Chained ==
    \A i \in 1..Len(trace) :
        trace[i].src = (IF i = 1 THEN image ELSE trace[i - 1].dst)

\* the pipeline of enhance_for_3d as the specification words it: normalise,
\* then each of sharpen, saturate, contrast if its factor is not 1.0, then the
\* unsharp mask if the flag is set
Expected3d(img, sf, cf, ctf, un) ==
    LET a == Convert(img, "RGB")
        b == IF sf # 100 THEN Sharpness(a, sf) ELSE a
        c == IF cf # 100 THEN Color(b, cf) ELSE b
        d == IF ctf # 100 THEN Contrast(c, ctf) ELSE c
    IN  IF un THEN UnsharpMask(d) ELSE d

ExpectedSteps(sf, cf, ctf, un) ==
    <<"convert">>
    \o (IF sf # 100 THEN <<"sharpen">> ELSE <<>>)
    \o (IF cf # 100 THEN <<"color">> ELSE <<>>)
    \o (IF ctf # 100 THEN <<"contrast">> ELSE <<>>)
    \o (IF un THEN <<"unsharp">> ELSE <<>>)

\* C1: when a step of the body fails, the call does not raise and returns the
\* very object it was given; whatever is returned is the original or the
\* fully processed image, never an intermediate one.
C1_FailureReturnsOriginal ==
    /\ (Done /\ StepFailed) => (outcome = "returned" /\ ret = image)
    /\ Returned => (ret = image \/ (ret = enhanced /\ e = ""))

\* C2: whatever the log sink does on an info or warning call, every call
\* ends by returning an image; no exception escapes.
C2_LogFailureNeverEscapes ==
    Done => (outcome = "returned" /\ ret \in 1..Len(heap))

\* C10: a call that returns after an enhancement step raised made exactly
\* one warning and no info entry; one that returns with no step having raised
\* made exactly one info and no warning entry; so each such call made one
\* entry, and a warning exactly when the original is returned because of a
\* failure.
C10_OneLogEntryPerCall ==
    Returned =>
        /\ StepFailed => (Count("warning") = 1 /\ Count("info") = 0)
        /\ ~StepFailed => (Count("info") = 1 /\ Count("warning") = 0)
        /\ Len(log) = 1
        /\ (Count("warning") > 0) <=> (StepFailed /\ ret = image)

\* C3: once the body of enhance_for_3d has run through, the library calls
\* made are RGB-normalise, sharpen, saturate, contrast, unsharp in that order,
\* a factor step present exactly when its factor is not 1.0 and the unsharp
\* step exactly when the flag is set; each call read the previous call's
\* output and `enhanced` is the last output, the composition of those steps.
C3_FixedOrderAndGates ==
    (In3d /\ (pc = "e3_info" \/ (Done /\ e \in {"", "e3_info"}))) =>
        /\ StepNames = ExpectedSteps(sharpen_factor, color_factor, contrast_factor, apply_unsharp)
        /\ Chained
        /\ enhanced = trace[Len(trace)].dst
        /\ heap[enhanced] = Expected3d(given, sharpen_factor, color_factor,
                                       contrast_factor, apply_unsharp)

C3_Witness ==
    /\ op = "enhance_for_3d"
    /\ pc = "e3_info"
    /\ sharpen_factor = 130 /\ color_factor = 100 /\ contrast_factor = 110 /\ apply_unsharp
    /\ StepNames = <<"convert", "sharpen", "contrast", "unsharp">>
    /\ heap[trace[2].dst] # heap[trace[2].src]

NeutralCall ==
    /\ op = "enhance_for_3d"
    /\ sharpen_factor = 100 /\ color_factor = 100 /\ contrast_factor = 100
    /\ ~apply_unsharp

\* C4: a neutral call enhance_for_3d(img, 1.0, 1.0, 1.0, False) that succeeds
\* made no filter call and returns a new image pixel-identical to the
\* RGB-normalised input; applied again to its own output it returns the same
\* pixels.
C4_NeutralIsNormalise ==
    (NeutralCall /\ Succeeded) =>
        /\ StepNames = <<"convert">>
        /\ heap[ret] = Convert(given, "RGB")
        /\ fed = "enhanced" => heap[ret] = given

C4_Witness ==
    /\ NeutralCall /\ Succeeded
    /\ fed = "enhanced" /\ chain = 1
    /\ given.mode = "RGB" /\ given.width = 3 /\ given.height = 2

\* C5: in every state of every call, on the success path and on the failure
\* path, the caller's image object holds the mode, size and pixels it held
\* when the call began.
C5_InputUntouched ==
    heap # <<>> => heap[image] = given

C5_Witness ==
    /\ Returned /\ ret # image
    /\ heap[ret] # given
    /\ heap[image] = given
    /\ given.mode = "L"
    /\ Len(heap) > 4

\* C6: the image a call returns, enhanced or original, has the width and
\* height of the input, and so has every image a step produced.
C6_SizePreserved ==
    /\ \A i \in 1..Len(heap) :
           /\ heap[i].width = given.width
           /\ heap[i].height = given.height
           /\ Len(heap[i].px) = given.width * given.height
    /\ Returned => (heap[ret].width = given.width /\ heap[ret].height = given.height)

C6_Witness ==
    /\ Succeeded /\ op = "prepare_for_trellis"
    /\ given.width = 3 /\ given.height = 2
    /\ heap[ret].width = 3 /\ heap[ret].height = 2
    /\ heap[ret].px # Convert(given, "RGB").px

\* the saturation and value arrays hold the boosted values
SBoosted == s_array # <<>> /\ pc # "cm_s_clip" /\ e # "cm_s_clip"
VBoosted == v_array # <<>> /\ pc # "cm_v_clip" /\ e # "cm_v_clip"

\* the saturation step moved channel `out` away from the grey level, or kept
\* it: a wrapped value would land on the other side of `src`
AwayFromGrey(src, grey, out) ==
    /\ src >= grey => out >= src
    /\ src <= grey => out <= src

\* C7: after every step every channel of every pixel is an integer in
\* 0..255, and values pushed out of range are clamped, not wrapped: a
\* saturation step with a factor above 1.0 never moves a channel back across
\* its old value, and a boosted S or V of 255 or more is stored as 255.
C7_ChannelsClamped ==
    /\ \A i \in 1..Len(heap) : \A k \in 1..Len(heap[i].px) :
           \A c \in 1..Len(heap[i].px[k]) : heap[i].px[k][c] \in 0..255
    /\ \A i \in 1..Len(trace) :
           (trace[i].step = "color" /\ color_factor > 100) =>
               \A k \in 1..Len(heap[trace[i].src].px) : \A c \in 1..3 :
                   AwayFromGrey(heap[trace[i].src].px[k][c],
                                Luma(heap[trace[i].src].px[k]),
                                heap[trace[i].dst].px[k][c])
    /\ SBoosted =>
           \A k \in 1..Len(s_array) :
               /\ s_array[k] \in 0..255
               /\ 125 * heap[img_hsv].px[k][2] >= 25500 => s_array[k] = 255
    /\ VBoosted =>
           \A k \in 1..Len(v_array) :
               /\ v_array[k] \in 0..255
               /\ 105 * heap[img_hsv].px[k][3] >= 25500 => v_array[k] = 255

C7_Witness ==
    /\ pc = "cm_info"
    /\ \E k \in 1..Len(s_array) :
           heap[img_hsv].px[k][2] \in 205..254 /\ s_array[k] = 255
    /\ \E k \in 1..Len(v_array) :
           heap[img_hsv].px[k][3] \in 243..254 /\ v_array[k] = 255

\* the 8-bit value y stands for x * pct / 100 clamped to [0, 255]: it is that
\* number cut to an integer, at most one level below it
Quantised(y, x, pct) ==
    LET exact == Min(25500, x * pct)
    IN  100 * y <= exact /\ exact - 100 <= 100 * y

\* the merged HSV image of line 100 and the image it is converted to
MergedRef == trace[Len(trace) - 1].dst

\* C8: on the success path of enhance_colors_for_matching the HSV image that
\* is converted back to RGB has the input's hue unchanged, saturation
\* S * 1.25 and value V * 1.05 clamped to [0, 255] (to integer precision), so
\* neither is lower than before; `enhanced` is its RGB conversion.
C8_HueKeptSatValBoosted ==
    (InCM /\ pc = "cm_info") =>
        /\ trace[Len(trace) - 1].step = "merge" /\ trace[Len(trace)].step = "rgb"
        /\ trace[Len(trace)].src = MergedRef /\ enhanced = trace[Len(trace)].dst
        /\ heap[MergedRef].mode = "HSV"
        /\ heap[enhanced] = Convert(heap[MergedRef], "RGB")
        /\ heap[img_hsv] = Convert(Convert(given, "RGB"), "HSV")
        /\ \A k \in 1..Len(heap[MergedRef].px) :
               LET old == heap[img_hsv].px[k]
                   new == heap[MergedRef].px[k]
               IN  /\ new[1] = old[1]
                   /\ Quantised(new[2], old[2], 125)
                   /\ Quantised(new[3], old[3], 105)
                   /\ new[2] >= old[2]
                   /\ new[3] >= old[3]

C8_Witness ==
    /\ InCM /\ pc = "cm_info"
    /\ \E k \in 1..Len(heap[MergedRef].px) :
           /\ heap[MergedRef].px[k][1] > 0
           /\ heap[MergedRef].px[k][2] > heap[img_hsv].px[k][2]
           /\ heap[MergedRef].px[k][3] > heap[img_hsv].px[k][3]
           /\ heap[MergedRef].px[k][2] < 255

\* C9: a call of prepare_for_trellis runs the body of enhance_for_3d with
\* sharpen 1.2, color 1.1, contrast 1.05 and the unsharp mask, and nothing
\* else: it ends as that call ends, with the pipeline's output and one info
\* entry, or with the original image after a warning.
C9_TrellisDelegates ==
    op = "prepare_for_trellis" =>
        /\ <<sharpen_factor, color_factor, contrast_factor, apply_unsharp>>
               = <<120, 110, 105, TRUE>>
        /\ pc \in {"e3_convert", "e3_sharpen", "e3_color", "e3_contrast", "e3_unsharp",
                   "e3_info", "e3_except", "done"}
        /\ \A i \in 1..Len(trace) :
               trace[i].step = <<"convert", "sharpen", "color", "contrast", "unsharp">>[i]
        /\ Succeeded =>
               /\ heap[ret] = Expected3d(given, 120, 110, 105, TRUE)
               /\ log = <<[level |-> "info", ok |-> TRUE]>>
        /\ (Returned /\ e # "") =>
               /\ ret = image
               /\ log[Len(log)] = [level |-> "warning", ok |-> TRUE]

C9_Witness ==
    /\ op = "prepare_for_trellis" /\ Succeeded
    /\ Len(trace) = 5
    /\ heap[ret] = Expected3d(given, 120, 110, 105, TRUE)
    /\ heap[ret] # Convert(given, "RGB")
    /\ given.mode = "RGBA"

====
